---- MODULE Spec2Model ----
(***************************************************************************)
(* A model of the RetailAR training pipeline.                              *)
(*                                                                         *)
(*   Spec     the orchestrator (run_training_pipeline.py) running the four *)
(*            stage scripts as subprocesses over a shared file system;     *)
(*            the conversion script (convert_tfjs.py) is modelled step by  *)
(*            step, the other scripts by their entry checks and outcome.   *)
(*   SpecAug  one run of augment_images.py over the raw image folders,     *)
(*            image by image, with the output files it writes.             *)
(*                                                                         *)
(* Paths are taken to be absolute, so that the orchestrator and the stage  *)
(* scripts name the same directories.                                      *)
(***************************************************************************)
EXTENDS Integers, Sequences, FiniteSets, TLC

\* ------------------------------------------------------------------ bounds
\* Names (timestamps) of the training_* directories found before the run.
MaxOld == 2
\* Seconds the clock may advance during the run.
MaxTicks == 1
\* Raw source images per class.
MaxImages == 2
\* Largest --augmentations count.
MaxK == 2
\* Augmented samples per class in the partitioner model.
MaxSamples == 3
\* Partition runs into the same splits directory.
MaxRuns == 2
\* Images per validation directory, all classes together.
MaxValImages == 3

VARIABLES
    \* ---- orchestrator (run_training_pipeline.py main)
    args,       \* the skip flags
    pc,         \* the orchestrator's position
    status,     \* per stage: pending | running | ok | failed | skipped
    order,      \* the stages started, in start order
    exitCode,   \* -1 while running, then the process's exit code
    latest,     \* latest_model_dir: the resolved training_* name, 0 before
    valModel,   \* the directory whose final_model.h5 went to validate_model.py
    convModel,  \* the directory whose final_model.h5 went to convert_tfjs.py
    \* ---- file system and clock
    raw,        \* data/raw: absent | no_products | no_images | ok
    splits,     \* data/splits/train and data/splits/val exist
    dirs,       \* training_* name -> NoDir or [mtime, final]
    deployed,   \* public/ml-model: nodir (no public dir) | absent | old | partial | new
    clock,
    \* ---- the running stage script
    proc,       \* [stage, at, rc, dir]
    attempts,   \* convert_model: the conversion paths tried, with outcome
    effects,    \* convert_tfjs.py: what this run wrote
    failedAt,   \* convert_tfjs.py: the step that raised, or "none"
    ownDir,     \* the training_* directory this run's train_model.py made
    missing,    \* stages started while their required input was absent
    \* ---- augment_images.py (SpecAug)
    rawFiles,   \* class -> the source images of data/raw/<class>
    augK,       \* --augmentations
    augPc,      \* idle | run | split | done
    augClass,   \* index of the class being processed
    augTodo,    \* image_files of the current class not yet processed
    outFiles,   \* class -> names of the files in data/augmented/<class>
    listed,     \* class -> all_augmented, the names process_product returns
    augRc,      \* exit code of the script, -1 while running
    \* ---- create_dataset_splits (SpecSplit)
    samples,    \* class -> the files of data/augmented/<class>
    perm,       \* list length -> the permutation np.random.shuffle applies
                \* after np.random.seed(42)
    links,      \* class -> [train, val]: the symlinks of data/splits
    created,    \* class -> [train, val]: the symlinks this run created
    member,     \* class -> [train, val]: train_images, val_images of this run
    info,       \* dataset_info of this run: [total, entries]
    manifest,   \* dataset_info.json: [written, total, entries]
    splitPc,    \* idle | start | classes | done
    splitClass, \* index of the class to process
    runs,       \* partition runs started
    splitRc,    \* outcome of the run: -1 running, 0 returned, 1 raised
    prevMember, \* member of the run before this one
    prevLinks,  \* links when this run started
    prevRc,     \* outcome of the run before this one
    \* ---- validate_model.py (SpecVal)
    valImages,  \* class -> image_files of validation_dir/<class>
    threshold,  \* confidence_threshold, in hundredths
    valPc,      \* idle | loop | single | stats | matrix | done
    valClass,   \* index of the class being validated
    valTodo,    \* images of the current class not yet processed
    results,    \* validate_directory's results
    totalPred,  \* total_predictions
    correctPred,\* correct_predictions
    stats,      \* per_class_stats
    matrix,     \* confusion_matrix
    mIdx,       \* results already counted in confusion_matrix
    report,     \* validation_report.json: [written, total_images, ...]
    valRc,      \* outcome: -1 running, 0 returned, 1 raised
    single      \* what test_single_image returned

pipeVars == <<args, pc, status, order, exitCode, latest, valModel, convModel,
              raw, splits, dirs, deployed, clock, proc, attempts, effects,
              failedAt, missing, ownDir>>
augVars == <<rawFiles, augK, augPc, augClass, augTodo, outFiles, listed, augRc>>
splitVars == <<samples, perm, links, created, member, info, manifest, splitPc,
               splitClass, runs, splitRc, prevMember, prevLinks, prevRc>>
valVars == <<valImages, threshold, valPc, valClass, valTodo, results, totalPred,
             correctPred, stats, matrix, mIdx, report, valRc, single>>
vars == <<pipeVars, augVars, splitVars, valVars>>

\* ------------------------------------------------------------ orchestrator
Stages == <<"aug", "train", "val", "conv">>
StageSet == {"aug", "train", "val", "conv"}

StageIndex(s) == CHOOSE i \in 1..Len(Stages) : Stages[i] = s

NoDir == [mtime |-> 0, final |-> FALSE, exists |-> FALSE]
Names == 1..(MaxOld + MaxTicks)
NoProc == [stage |-> "none", at |-> "none", rc |-> 0, dir |-> 0]

\* check_raw_data: the raw directory exists, holds every product directory
\* and at least one image.
check_raw_data(r) == r = "ok"

\* The stages whose failure makes main return False.
FatalNoAug(s) == s \in {"train", "conv"}
FatalAll(s) == TRUE
Fatal(s) == s \in {"aug", "train", "conv"}

\* --skip-augmentation, --skip-training, --skip-conversion; validation has
\* no skip flag.
Skipped(s) ==
    CASE s = "aug" -> args.skipAug
      [] s = "train" -> args.skipTrain
      [] s = "conv" -> args.skipConv
      [] OTHER -> FALSE

\* Where main goes after stage s completed or was skipped.
AfterStage(s) ==
    CASE s = "aug" -> "train"
      [] s = "train" -> "resolve"
      [] s = "val" -> "conv"
      [] OTHER -> "done"

Existing == {n \in Names : dirs[n].exists}

\* max(model_dirs, key=st_mtime): a directory of greatest modification time;
\* which one among equals depends on the order glob lists them in.
LatestOldest(ds) == {n \in ds : \A m \in ds : dirs[m].mtime >= dirs[n].mtime}
Latest(ds) == {n \in ds : \A m \in ds : dirs[m].mtime <= dirs[n].mtime}

\* The required input of stage s is there when it starts.
InputPresent(s) ==
    CASE s = "aug" -> raw # "absent"
      [] s = "train" -> splits
      [] s = "conv" -> dirs[latest].final
      [] OTHER -> TRUE

InitPipe ==
    /\ args \in [skipAug : BOOLEAN, skipTrain : BOOLEAN, skipConv : BOOLEAN]
    /\ pc = "check"
    /\ status = [s \in StageSet |-> "pending"]
    /\ order = <<>>
    /\ exitCode = -1
    /\ latest = 0 /\ valModel = 0 /\ convModel = 0
    /\ raw \in {"absent", "no_products", "no_images", "ok"}
    /\ splits \in BOOLEAN
    /\ dirs \in [Names -> {NoDir} \cup
                   [mtime : 1..MaxOld, final : BOOLEAN, exists : {TRUE}]]
    /\ \A n \in Names : dirs[n].exists => n <= MaxOld /\ dirs[n].mtime >= n
    /\ deployed \in {"nodir", "absent", "old"}
    /\ clock = MaxOld
    /\ proc = NoProc
    /\ attempts = <<>>
    /\ effects = {}
    /\ failedAt = "none"
    /\ missing = {}
    /\ ownDir = 0

AugIdle ==
    /\ rawFiles = <<>> /\ augK = 0 /\ augPc = "idle" /\ augClass = 0
    /\ augTodo = {} /\ outFiles = <<>> /\ listed = <<>> /\ augRc = -1

SplitIdle ==
    /\ samples = <<>> /\ perm = <<>> /\ links = <<>> /\ created = <<>>
    /\ member = <<>> /\ info = <<>> /\ manifest = <<>> /\ splitPc = "idle"
    /\ splitClass = 0 /\ runs = 0 /\ splitRc = -1 /\ prevMember = <<>>
    /\ prevLinks = <<>> /\ prevRc = -1

ValIdle ==
    /\ valImages = <<>> /\ threshold = 0 /\ valPc = "idle" /\ valClass = 0
    /\ valTodo = <<>> /\ results = <<>> /\ totalPred = 0 /\ correctPred = 0
    /\ stats = <<>> /\ matrix = <<>> /\ mIdx = 0 /\ report = <<>>
    /\ valRc = -1 /\ single = <<>>

\* Time passes.
Tick ==
    /\ pc # "done"
    /\ clock < MaxOld + MaxTicks
    /\ clock' = clock + 1
    /\ UNCHANGED <<ownDir, args, pc, status, order, exitCode, latest, valModel,
                   convModel, raw, splits, dirs, deployed, proc, attempts,
                   effects, failedAt, missing>>
    /\ UNCHANGED <<augVars, splitVars, valVars>>

\* Step 1: check_raw_data, and return False when it fails.
CheckRawData ==
    /\ pc = "check"
    /\ IF check_raw_data(raw)
       THEN pc' = "aug" /\ exitCode' = exitCode
       ELSE pc' = "done" /\ exitCode' = 1
    /\ UNCHANGED <<ownDir, args, status, order, latest, valModel, convModel, raw,
                   splits, dirs, deployed, clock, proc, attempts, effects,
                   failedAt, missing>>
    /\ UNCHANGED <<augVars, splitVars, valVars>>

\* The else branch of a stage's skip flag.
SkipStage(s) ==
    /\ pc = s
    /\ Skipped(s)
    /\ status' = [status EXCEPT ![s] = "skipped"]
    /\ pc' = AfterStage(s)
    /\ exitCode' = IF AfterStage(s) = "done" THEN 0 ELSE exitCode
    /\ UNCHANGED <<ownDir, args, order, latest, valModel, convModel, raw, splits,
                   dirs, deployed, clock, proc, attempts, effects, failedAt,
                   missing>>
    /\ UNCHANGED <<augVars, splitVars, valVars>>

\* run_command up to subprocess.run: the stage script is started and main
\* waits for it. A variant that does not wait moves on at once.
StartStageNoWait(s) ==
    /\ pc = s
    /\ ~Skipped(s)
    /\ status[s] = "pending"
    /\ status' = [status EXCEPT ![s] = "running"]
    /\ order' = Append(order, s)
    /\ pc' = IF AfterStage(s) = "resolve" THEN "val" ELSE AfterStage(s)
    /\ proc' = [stage |-> s, at |-> "begin", rc |-> 0, dir |-> 0]
    /\ valModel' = IF s = "val" THEN latest ELSE valModel
    /\ convModel' = IF s = "conv" THEN latest ELSE convModel
    /\ missing' = IF InputPresent(s) THEN missing ELSE missing \cup {s}
    /\ UNCHANGED <<ownDir, args, exitCode, latest, raw, splits, dirs, deployed,
                   clock, attempts, effects, failedAt>>
    /\ UNCHANGED <<augVars, splitVars, valVars>>

StartStage(s) ==
    /\ pc = s
    /\ ~Skipped(s)
    /\ status[s] = "pending"
    /\ proc = NoProc
    /\ status' = [status EXCEPT ![s] = "running"]
    /\ order' = Append(order, s)
    /\ proc' = [stage |-> s, at |-> "begin", rc |-> 0, dir |-> 0]
    /\ valModel' = IF s = "val" THEN latest ELSE valModel
    /\ convModel' = IF s = "conv" THEN latest ELSE convModel
    /\ missing' = IF InputPresent(s) THEN missing ELSE missing \cup {s}
    /\ UNCHANGED <<ownDir, args, pc, exitCode, latest, raw, splits, dirs, deployed,
                   clock, attempts, effects, failedAt>>
    /\ UNCHANGED <<augVars, splitVars, valVars>>

\* run_command from the subprocess's exit: True for exit code 0, False for
\* CalledProcessError; then main's test of the result.
FinishStage(s) ==
    /\ proc.stage = s
    /\ proc.at = "exit"
    /\ status[s] = "running"
    /\ proc' = NoProc
    /\ status' = [status EXCEPT ![s] = IF proc.rc = 0 THEN "ok" ELSE "failed"]
    /\ IF proc.rc # 0 /\ Fatal(s)
       THEN pc' = "done" /\ exitCode' = 1
       ELSE /\ pc' = AfterStage(s)
            /\ exitCode' = IF AfterStage(s) = "done" THEN 0 ELSE exitCode
    /\ UNCHANGED <<ownDir, args, order, latest, valModel, convModel, raw, splits,
                   dirs, deployed, clock, attempts, effects, failedAt,
                   missing>>
    /\ UNCHANGED <<augVars, splitVars, valVars>>

\* "Find the latest model" after training, "Find existing model" when
\* training was skipped: the same glob and max in both branches.
ResolveModel ==
    /\ pc = "resolve"
    /\ IF Existing = {}
       THEN pc' = "done" /\ exitCode' = 1 /\ latest' = latest
       ELSE /\ latest' \in Latest(Existing)
            /\ pc' = "val"
            /\ exitCode' = exitCode
    /\ UNCHANGED <<ownDir, args, status, order, valModel, convModel, raw, splits,
                   dirs, deployed, clock, proc, attempts, effects, failedAt,
                   missing>>
    /\ UNCHANGED <<augVars, splitVars, valVars>>

\* ------------------------------------------------------------ stage scripts
\* What the script actions leave alone in the orchestrator.
OrchUnchanged ==
    UNCHANGED <<ownDir, args, pc, status, order, exitCode, latest, valModel,
                convModel, raw, clock, missing>>

Exit(code) == [proc EXCEPT !.at = "exit", !.rc = code]

\* augment_images.py main, by outcome: return when the raw directory is
\* absent or no image was processed (exit code 0 both times); otherwise the
\* products are processed and the splits created, and an exception raised
\* while processing or while splitting ends the script with exit code 1
\* (SpecAug has the images and the files).
AugScript ==
    /\ proc.stage = "aug" /\ proc.at = "begin"
    /\ IF raw = "absent" \/ raw = "no_images"
       THEN proc' = Exit(0) /\ splits' = splits
       ELSE \E outcome \in {"ok", "raised_processing", "raised_splitting"} :
              /\ proc' = Exit(IF outcome = "ok" THEN 0 ELSE 1)
              /\ splits' = IF outcome = "raised_processing" THEN splits ELSE TRUE
    /\ OrchUnchanged
    /\ UNCHANGED <<dirs, deployed, attempts, effects, failedAt>>
    /\ UNCHANGED <<augVars, splitVars, valVars>>

\* train_model.py main: the timestamp and model_dir.mkdir(exist_ok=True).
TrainMkdir ==
    /\ proc.stage = "train" /\ proc.at = "begin"
    /\ proc' = [proc EXCEPT !.at = "check", !.dir = clock]
    /\ dirs' = IF dirs[clock].exists
               THEN dirs
               ELSE [dirs EXCEPT ![clock] =
                       [mtime |-> clock, final |-> FALSE, exists |-> TRUE]]
    /\ ownDir' = clock
    /\ UNCHANGED <<args, pc, status, order, exitCode, latest, valModel,
                   convModel, raw, clock, missing>>
    /\ UNCHANGED <<splits, deployed, attempts, effects, failedAt>>
    /\ UNCHANGED <<augVars, splitVars, valVars>>

\* Another pipeline run or training process, still training, writes into
\* its training_* directory of the same output directory while this run is
\* about to look for the latest model, after its own training succeeded.
\* The other directory is named after the second its training started in,
\* which may be the second this run's training started in. One such write
\* per second is modelled.
OtherTraining ==
    /\ pc = "resolve"
    /\ status["train"] = "ok"
    /\ \A m \in Names \ {ownDir} : dirs[m].exists => dirs[m].mtime < clock
    /\ \E n \in Names :
         /\ n <= clock
         /\ dirs[n].mtime < clock \/ ~dirs[n].exists
         /\ dirs' = [dirs EXCEPT ![n] =
                       [mtime |-> clock, final |-> @.final, exists |-> TRUE]]
    /\ UNCHANGED <<ownDir, args, pc, status, order, exitCode, latest,
                   valModel, convModel, raw, clock, missing>>
    /\ UNCHANGED <<splits, deployed, proc, attempts, effects, failedAt>>
    /\ UNCHANGED <<augVars, splitVars, valVars>>

\* train_model.py main from "Check if data exists": return (exit code 0)
\* when a split directory is absent; otherwise the architecture and the
\* configuration are written, and training either raises (exit code 1) or
\* ends with final_model.h5 saved.
TrainBody ==
    /\ proc.stage = "train" /\ proc.at = "check"
    /\ IF ~splits
       THEN proc' = Exit(0) /\ dirs' = dirs
       ELSE \E ok \in BOOLEAN :
              /\ proc' = Exit(IF ok THEN 0 ELSE 1)
              /\ dirs' = [dirs EXCEPT ![proc.dir] =
                            [mtime |-> clock,
                             final |-> (ok \/ dirs[proc.dir].final),
                             exists |-> TRUE]]
    /\ OrchUnchanged
    /\ UNCHANGED <<splits, deployed, attempts, effects, failedAt>>
    /\ UNCHANGED <<augVars, splitVars, valVars>>

\* validate_model.py main: return (exit code 0) when the model file is
\* absent, when loading it raises (caught) or when the validation
\* directory is absent; otherwise validate_directory runs and the script
\* ends with exit code 1 when it raises.
ValScript ==
    /\ proc.stage = "val" /\ proc.at = "begin"
    /\ IF ~dirs[valModel].final \/ ~splits
       THEN proc' = Exit(0)
       ELSE \E loaded \in BOOLEAN, raised \in BOOLEAN :
              proc' = Exit(IF loaded /\ raised THEN 1 ELSE 0)
    /\ OrchUnchanged
    /\ UNCHANGED <<splits, dirs, deployed, attempts, effects, failedAt>>
    /\ UNCHANGED <<augVars, splitVars, valVars>>

\* ---- convert_tfjs.py
ConvUnchanged == OrchUnchanged /\ UNCHANGED <<splits, dirs>> /\ UNCHANGED <<augVars, splitVars, valVars>>

\* main: "Check if model exists", return (exit code 0) when it does not.
ConvCheckModel ==
    /\ proc.stage = "conv" /\ proc.at = "begin"
    /\ proc' = IF dirs[convModel].final
               THEN [proc EXCEPT !.at = "load"]
               ELSE Exit(0)
    /\ ConvUnchanged
    /\ UNCHANGED <<deployed, attempts, effects, failedAt>>

\* convert_model: tf.keras.models.load_model, outside the try.
ConvLoad ==
    /\ proc.stage = "conv" /\ proc.at = "load"
    /\ \E ok \in BOOLEAN :
         IF ok
         THEN proc' = [proc EXCEPT !.at = "direct"] /\ failedAt' = failedAt
         ELSE proc' = Exit(1) /\ failedAt' = "load"
    /\ ConvUnchanged
    /\ UNCHANGED <<deployed, attempts, effects>>

\* The try/except of convert_model: after the direct conversion returned
\* (ok) or raised, the next step.
DirectAlwaysFallback(ok) == "fallback"
DirectNoFallback(ok) == IF ok THEN "metadata" ELSE "raise"
AfterDirect(ok) == IF ok THEN "metadata" ELSE "fallback"

\* The except body is not guarded: what it raises leaves convert_model.
FallbackSwallowed(ok) == "metadata"
AfterFallback(ok) == IF ok THEN "metadata" ELSE "raise"

\* A step of convert_model that goes to `next`; "raise" leaves the script
\* through main with exit code 1.
ConvGoto(next) ==
    IF next = "raise"
    THEN proc' = Exit(1) /\ failedAt' = "convert"
    ELSE proc' = [proc EXCEPT !.at = next] /\ failedAt' = failedAt

\* main: quantization = not args.no_quantization, and the orchestrator never
\* passes --no-quantization.
Quantization == TRUE

\* conversion_kwargs of the direct path: 'quantization_dtype' is 'uint8' if
\* quantization, and is dropped when None.
DirectQuantized(quantization) == quantization

\* convert_tf_saved_model is called with strip_debug_ops and
\* weight_shard_size_bytes only.
FallbackQuantized(quantization) == FALSE

\* tfjs.converters.save_keras_model inside the try.
ConvDirect ==
    /\ proc.stage = "conv" /\ proc.at = "direct"
    /\ \E ok \in BOOLEAN :
         /\ attempts' = Append(attempts, [path |-> "direct", ok |-> ok])
         /\ effects' = IF ok /\ DirectQuantized(Quantization)
                       THEN effects \cup {"quantized"} ELSE effects
         /\ ConvGoto(AfterDirect(ok))
    /\ ConvUnchanged
    /\ UNCHANGED deployed

\* The except body: tf.saved_model.save, then convert_tf_saved_model.
ConvFallback ==
    /\ proc.stage = "conv" /\ proc.at = "fallback"
    /\ \E ok \in BOOLEAN :
         /\ attempts' = Append(attempts, [path |-> "fallback", ok |-> ok])
         /\ effects' = IF ok /\ FallbackQuantized(Quantization)
                       THEN effects \cup {"quantized"} ELSE effects
         /\ ConvGoto(AfterFallback(ok))
    /\ ConvUnchanged
    /\ UNCHANGED deployed

\* main: create_model_metadata and create_web_integration_code.
ConvMetadata ==
    /\ proc.stage = "conv" /\ proc.at = "metadata"
    /\ effects' = effects \cup {"metadata", "integration"}
    /\ proc' = [proc EXCEPT !.at = "publish"]
    /\ ConvUnchanged
    /\ UNCHANGED <<deployed, attempts, failedAt>>

\* A publish that swaps the new directory in with one rename.
ConvPublishAtomic ==
    /\ proc.stage = "conv" /\ proc.at = "publish"
    /\ IF deployed = "nodir"
       THEN UNCHANGED <<deployed, effects>>
       ELSE deployed' = "new" /\ effects' = effects \cup {"copytree"}
    /\ proc' = Exit(0)
    /\ ConvUnchanged
    /\ UNCHANGED <<attempts, failedAt>>

\* main: "if args.copy_to_public and args.public_dir.exists()" (the
\* orchestrator always passes --copy-to-public), then copy_to_public up to
\* shutil.rmtree of an existing public/ml-model.
ConvPublishRemove ==
    /\ proc.stage = "conv" /\ proc.at = "publish"
    /\ IF deployed = "nodir"
       THEN proc' = Exit(0) /\ UNCHANGED <<deployed, effects>>
       ELSE /\ proc' = [proc EXCEPT !.at = "copytree"]
            /\ deployed' = "absent"
            /\ effects' = IF deployed = "absent"
                          THEN effects ELSE effects \cup {"rmtree"}
    /\ ConvUnchanged
    /\ UNCHANGED <<attempts, failedAt>>

\* copy_to_public: shutil.copytree(tfjs_output, public_ml_dir) makes the
\* directory and copies the files of tfjs_output one after the other.
ConvPublishCopy ==
    /\ proc.stage = "conv" /\ proc.at = "copytree"
    /\ deployed' = "partial"
    /\ proc' = [proc EXCEPT !.at = "copyfiles"]
    /\ ConvUnchanged
    /\ UNCHANGED <<attempts, effects, failedAt>>

\* copytree copies the last file and returns; then main prints the sizes
\* and returns.
ConvPublishCopyRest ==
    /\ proc.stage = "conv" /\ proc.at = "copyfiles"
    /\ deployed' = "new"
    /\ effects' = effects \cup {"copytree"}
    /\ proc' = Exit(0)
    /\ ConvUnchanged
    /\ UNCHANGED <<attempts, failedAt>>

\* ------------------------------------------------------------ the pipeline
Init == InitPipe /\ AugIdle /\ SplitIdle /\ ValIdle

Next ==
    \/ Tick
    \/ CheckRawData
    \/ \E s \in StageSet : SkipStage(s)
    \/ \E s \in StageSet : StartStage(s)
    \/ \E s \in StageSet : FinishStage(s)
    \/ ResolveModel
    \/ AugScript
    \/ TrainMkdir
    \/ OtherTraining
    \/ TrainBody
    \/ ValScript
    \/ ConvCheckModel
    \/ ConvLoad
    \/ ConvDirect
    \/ ConvFallback
    \/ ConvMetadata
    \/ ConvPublishRemove
    \/ ConvPublishCopy
    \/ ConvPublishCopyRest

Spec == Init /\ [][Next]_vars

TypeOK ==
    /\ pc \in {"check", "aug", "train", "resolve", "val", "conv", "done"}
    /\ status \in [StageSet -> {"pending", "running", "ok", "failed", "skipped"}]
    /\ exitCode \in {-1, 0, 1}
    /\ latest \in Names \cup {0}
    /\ (pc = "done") = (exitCode # -1)

\* ------------------------------------------------------- augment_images.py
\* The product categories; the model keeps the first two of the five.
PRODUCTS == <<"zyn-apple-mint", "zyn-spearmint">>
Products == {PRODUCTS[i] : i \in 1..Len(PRODUCTS)}

\* Source images: data/raw/<product>/<stem>.<ext>, readable by PIL or not.
Stems == {"front", "side"}
Exts == {"jpg", "png"}
SourceImages == [stem : Stems, ext : Exts, readable : BOOLEAN]

\* A raw product folder: files of distinct names, at most MaxImages.
RawFolders ==
    {fs \in SUBSET SourceImages :
        /\ Cardinality(fs) <= MaxImages
        /\ \A f, g \in fs : f.stem = g.stem /\ f.ext = g.ext => f = g}

\* image_files is built extension by extension: .jpg before .png.
ExtRank(e) == IF e = "jpg" THEN 1 ELSE 2

\* The output file names: f"{product_name}_{base_filename}_original.jpg"
\* and f"{product_name}_{base_filename}_aug_{i:03d}.jpg", base_filename
\* being image_file.stem: the name keeps the product, the stem and the
\* variant, and drops the source's extension.
OriginalName(product, img) == <<product, img.stem, "original", 0>>
AugName(product, img, i) == <<product, img.stem, "aug", i>>

\* all_augmented for one image: the original, then augment_single_image's
\* variants 0..k-1.
ImageOutputs(product, img, k) ==
    <<OriginalName(product, img)>> \o [i \in 1..k |-> AugName(product, img, i - 1)]

Range(seq) == {seq[i] : i \in 1..Len(seq)}

PipeIdle ==
    /\ args = [skipAug |-> FALSE, skipTrain |-> FALSE, skipConv |-> FALSE]
    /\ pc = "aug"
    /\ status = [s \in StageSet |-> IF s = "aug" THEN "running" ELSE "pending"]
    /\ order = <<"aug">>
    /\ exitCode = -1
    /\ latest = 0 /\ valModel = 0 /\ convModel = 0
    /\ raw = "ok"
    /\ splits = FALSE
    /\ dirs = [n \in Names |-> NoDir]
    /\ deployed = "absent"
    /\ clock = MaxOld
    /\ proc = [stage |-> "aug", at |-> "begin", rc |-> 0, dir |-> 0]
    /\ attempts = <<>>
    /\ effects = {}
    /\ failedAt = "none"
    /\ missing = {}
    /\ ownDir = 0

\* What an earlier run with count MaxK over every source image left in
\* data/augmented/<product>: process_product and augment_single_image write
\* into the folder and never remove a file from it.
EarlierOutputs(product) ==
    UNION {Range(ImageOutputs(product, img, MaxK)) : img \in SourceImages}

\* main up to the product loop, over an empty output directory or over the
\* output directory of an earlier run.
InitAug ==
    /\ PipeIdle
    /\ SplitIdle /\ ValIdle
    /\ rawFiles \in [Products -> RawFolders]
    /\ augK \in 0..MaxK
    /\ augPc = "run"
    /\ augClass = 1
    /\ augTodo = rawFiles[PRODUCTS[1]]
    /\ outFiles \in {[p \in Products |-> {}],
                     [p \in Products |-> EarlierOutputs(p)]}
    /\ listed = [p \in Products |-> <<>>]
    /\ augRc = -1

\* process_product, one pass of "for image_file in image_files": Image.open
\* is not guarded, so an unreadable file raises out of process_product and
\* of main (exit code 1); a readable one is saved as the original and
\* augmented augK times.
ProcessImage ==
    /\ augPc = "run"
    /\ augClass <= Len(PRODUCTS)
    /\ \E img \in augTodo :
         /\ \A other \in augTodo : ExtRank(img.ext) <= ExtRank(other.ext)
         /\ LET product == PRODUCTS[augClass]
                names == ImageOutputs(product, img, augK)
            IN IF img.readable
               THEN /\ outFiles' = [outFiles EXCEPT ![product] = @ \cup Range(names)]
                    /\ listed' = [listed EXCEPT ![product] = @ \o names]
                    /\ augTodo' = augTodo \ {img}
                    /\ UNCHANGED <<augPc, augRc>>
               ELSE /\ augPc' = "done"
                    /\ augRc' = 1
                    /\ UNCHANGED <<outFiles, listed, augTodo>>
    /\ UNCHANGED <<rawFiles, augK, augClass>>
    /\ UNCHANGED <<pipeVars, splitVars, valVars>>

\* process_product returns all_augmented; main goes to the next product.
NextProduct ==
    /\ augPc = "run"
    /\ augClass <= Len(PRODUCTS)
    /\ augTodo = {}
    /\ augClass' = augClass + 1
    /\ augTodo' = IF augClass < Len(PRODUCTS)
                  THEN rawFiles[PRODUCTS[augClass + 1]] ELSE {}
    /\ UNCHANGED <<rawFiles, augK, augPc, outFiles, listed, augRc>>
    /\ UNCHANGED <<pipeVars, splitVars, valVars>>

\* main after the loop: "if total_images > 0" the splits are created,
\* otherwise main prints that nothing was processed and returns.
AfterProducts ==
    /\ augPc = "run"
    /\ augClass > Len(PRODUCTS)
    /\ IF \E p \in Products : Len(listed[p]) > 0
       THEN augPc' = "split" /\ augRc' = augRc
       ELSE augPc' = "done" /\ augRc' = 0
    /\ UNCHANGED <<rawFiles, augK, augClass, augTodo, outFiles, listed>>
    /\ UNCHANGED <<pipeVars, splitVars, valVars>>

\* create_dataset_splits over an empty splits directory, then main returns.
CreateSplits ==
    /\ augPc = "split"
    /\ augPc' = "done"
    /\ augRc' = 0
    /\ UNCHANGED <<rawFiles, augK, augClass, augTodo, outFiles, listed>>
    /\ UNCHANGED <<pipeVars, splitVars, valVars>>

NextAug ==
    \/ ProcessImage
    \/ NextProduct
    \/ AfterProducts
    \/ CreateSplits

SpecAug == InitAug /\ [][NextAug]_vars

\* ------------------------------------------------- create_dataset_splits
\* The files of one data/augmented/<class> folder.
SampleNames == 1..MaxSamples

\* list(product_dir.glob("*.jpg")): the files in the order the directory
\* lists them, which is any order.
Orderings(S) ==
    {s \in [1..Cardinality(S) -> S] :
        \A i, j \in 1..Cardinality(S) : s[i] = s[j] => i = j}

\* np.random.seed(42) then np.random.shuffle(images): the generator (MT19937
\* seeded with 42) draws j = interval(i) for i = n-1 down to 1 and swaps
\* images[i] and images[j]. Seed42[n][i] is the position, in a list of
\* length n, of the element that ends at position i.
Seed42 ==
    << <<1>>,
       <<2, 1>>,
       <<1, 2, 3>>,
       <<2, 4, 1, 3>>,
       <<2, 5, 3, 1, 4>>,
       <<1, 2, 6, 3, 5, 4>> >>

Shuffle(images) == [i \in 1..Len(images) |-> images[perm[Len(images)][i]]]

\* train_count = int(len(images) * train_ratio), train_ratio = 0.8: the
\* product is a non-negative float and int() truncates it.
TrainCountRounded(n) == (n * 8 + 5) \div 10
TrainCount(n) == (n * 8) \div 10

\* "Update dataset info": the two counts of the product, and the total.
InfoAddTotalOverwritten(inf, product, nTrain, nVal, n) ==
    [total |-> n,
     entries |-> inf.entries \cup
                   {[class |-> product, train |-> nTrain, val |-> nVal]}]
InfoAdd(inf, product, nTrain, nVal, n) ==
    [total |-> inf.total + n,
     entries |-> {e \in inf.entries : e.class # product} \cup
                   {[class |-> product, train |-> nTrain, val |-> nVal]}]

NoLinks == [p \in Products |-> [train |-> {}, val |-> {}]]
NoManifest == [written |-> FALSE, total |-> 0, entries |-> {}]

SetMin(S) == CHOOSE x \in S : \A y \in S : x <= y

InitSplit ==
    /\ PipeIdle /\ AugIdle /\ ValIdle
    /\ samples \in [Products -> {1..n : n \in 0..MaxSamples}]
    /\ perm = Seed42
    /\ links = NoLinks
    /\ created = NoLinks
    /\ member = NoLinks
    /\ info = [total |-> 0, entries |-> {}]
    /\ manifest = NoManifest
    /\ splitPc = "start"
    /\ splitClass = 1
    /\ runs = 0
    /\ splitRc = -1
    /\ prevMember = NoLinks
    /\ prevLinks = NoLinks
    /\ prevRc = -1

\* create_dataset_splits up to the product loop: the directories are made
\* (exist_ok) and dataset_info starts empty.
SplitStart ==
    /\ splitPc \in {"start", "done"}
    /\ runs < MaxRuns
    /\ runs' = runs + 1
    /\ splitPc' = "classes"
    /\ splitClass' = 1
    /\ info' = [total |-> 0, entries |-> {}]
    /\ created' = NoLinks
    /\ member' = NoLinks
    /\ prevMember' = member
    /\ prevLinks' = links
    /\ prevRc' = splitRc
    /\ splitRc' = -1
    /\ UNCHANGED <<samples, perm, links, manifest>>
    /\ UNCHANGED <<pipeVars, augVars, valVars>>

\* One pass of "for product in PRODUCTS": list, shuffle, split, then
\* symlink_to for the train images and for the val images in turn.
\* symlink_to raises FileExistsError at the first link that exists already,
\* with the links before it made.
SplitClass ==
    /\ splitPc = "classes"
    /\ splitClass <= Len(PRODUCTS)
    /\ LET product == PRODUCTS[splitClass]
       IN IF samples[product] = {}
          THEN /\ splitClass' = splitClass + 1
               /\ UNCHANGED <<links, created, member, info, splitPc, splitRc>>
          ELSE \E images \in Orderings(samples[product]) :
                 LET shuffled == Shuffle(images)
                     n == Len(images)
                     train_count == TrainCount(n)
                     train_images == {shuffled[i] : i \in 1..train_count}
                     val_images == {shuffled[i] : i \in (train_count + 1)..n}
                     clashes ==
                         {i \in 1..n :
                            IF i <= train_count
                            THEN shuffled[i] \in links[product].train
                            ELSE shuffled[i] \in links[product].val}
                     stop == IF clashes = {} THEN n + 1 ELSE SetMin(clashes)
                     newTrain == {shuffled[i] : i \in 1..(stop - 1)} \cap train_images
                     newVal == {shuffled[i] : i \in 1..(stop - 1)} \cap val_images
                 IN /\ member' = [member EXCEPT ![product] =
                                    [train |-> train_images, val |-> val_images]]
                    /\ links' = [links EXCEPT ![product] =
                                   [train |-> @.train \cup newTrain,
                                    val |-> @.val \cup newVal]]
                    /\ created' = [created EXCEPT ![product] =
                                     [train |-> newTrain, val |-> newVal]]
                    /\ IF clashes = {}
                       THEN /\ info' = InfoAdd(info, product,
                                               Cardinality(train_images),
                                               Cardinality(val_images), n)
                            /\ splitClass' = splitClass + 1
                            /\ UNCHANGED <<splitPc, splitRc>>
                       ELSE /\ splitPc' = "done"
                            /\ splitRc' = 1
                            /\ UNCHANGED <<info, splitClass>>
    /\ UNCHANGED <<samples, perm, manifest, runs, prevMember, prevLinks, prevRc>>
    /\ UNCHANGED <<pipeVars, augVars, valVars>>

\* After the loop: dataset_info.json is written and dataset_info returned.
SplitFinish ==
    /\ splitPc = "classes"
    /\ splitClass > Len(PRODUCTS)
    /\ manifest' = [written |-> TRUE, total |-> info.total,
                    entries |-> info.entries]
    /\ splitPc' = "done"
    /\ splitRc' = 0
    /\ UNCHANGED <<samples, perm, links, created, member, info, splitClass,
                   runs, prevMember, prevLinks, prevRc>>
    /\ UNCHANGED <<pipeVars, augVars, valVars>>

\* Between two runs the splits directory is removed, so that the next run
\* is independent of the one before.
ClearSplits ==
    /\ splitPc = "done"
    /\ runs < MaxRuns
    /\ links # NoLinks
    /\ links' = NoLinks
    /\ manifest' = NoManifest
    /\ splitPc' = "start"
    /\ UNCHANGED <<samples, perm, created, member, info, splitClass,
                   runs, splitRc, prevMember, prevLinks, prevRc>>
    /\ UNCHANGED <<pipeVars, augVars, valVars>>

NextSplit ==
    \/ SplitStart
    \/ SplitClass
    \/ SplitFinish
    \/ ClearSplits

SpecSplit == InitSplit /\ [][NextSplit]_vars

\* ------------------------------------------------------- validate_model.py
\* Confidences and thresholds are in hundredths.
Confidences == {65, 70}
Thresholds == {70, 80}

\* PRODUCTS.index(product)
IndexOf(product) == CHOOSE i \in 1..Len(PRODUCTS) : PRODUCTS[i] = product

\* An image file of the validation directory: whether loading and
\* predicting it succeed, the argmax of the prediction, and its value.
BadImage == [ok |-> FALSE, pred |-> 1, conf |-> 65]
ValImageSet ==
    {BadImage} \cup
    [ok : {TRUE}, pred : 1..Len(PRODUCTS), conf : Confidences]

ImageLists == UNION {[1..n -> ValImageSet] : n \in 0..MaxValImages}

RECURSIVE SumLen(_, _)
SumLen(f, S) ==
    IF S = {} THEN 0
    ELSE LET x == CHOOSE y \in S : TRUE
         IN Len(f[x]) + SumLen(f, S \ {x})

\* 'success': confidence >= confidence_threshold
SuccessStrict(confidence, confidence_threshold) ==
    confidence > confidence_threshold
Success(confidence, confidence_threshold) ==
    confidence >= confidence_threshold

\* predict_single_image, for an image that loads and predicts.
predict_single_image(image, confidence_threshold) ==
    [predicted_product |-> PRODUCTS[image.pred],
     confidence |-> image.conf,
     success |-> Success(image.conf, confidence_threshold)]

\* The try body of validate_directory's image loop.
ResultOf(image, product, confidence_threshold) ==
    LET result == predict_single_image(image, confidence_threshold)
    IN [true_product |-> product,
        predicted_product |-> result.predicted_product,
        confidence |-> result.confidence,
        success |-> result.success,
        correct |-> (result.predicted_product = product)]

\* except Exception: the error is printed and the for loop goes on with
\* the next image of the class.
RestAfterErrorAbort(todo) == <<>>
RestAfterError(todo) == Tail(todo)

\* A quotient a / b, which raises ZeroDivisionError when b is 0.
Div(a, b) ==
    IF b = 0 THEN [err |-> TRUE, num |-> 0, den |-> 1]
    ELSE [err |-> FALSE, num |-> a, den |-> b]
Zero == [err |-> FALSE, num |-> 0, den |-> 1]

PrecisionUnguarded(true_positives, total_predicted) ==
    Div(true_positives, total_predicted)
Precision(true_positives, total_predicted) ==
    IF total_predicted > 0 THEN Div(true_positives, total_predicted) ELSE Zero

Recall(true_positives, total_true) ==
    IF total_true > 0 THEN Div(true_positives, total_true) ELSE Zero

\* 2 * (precision * recall) / (precision + recall) if the sum is > 0
F1Score(precision, recall) ==
    IF precision.err \/ recall.err
    THEN [err |-> TRUE, num |-> 0, den |-> 1]
    ELSE IF precision.num > 0 \/ recall.num > 0
         THEN Div(2 * precision.num * recall.num,
                  precision.num * recall.den + recall.num * precision.den)
         ELSE Zero

PerClassStats(res, product) ==
    LET true_positives ==
            Cardinality({k \in 1..Len(res) :
                res[k].true_product = product /\ res[k].correct})
        false_negatives ==
            Cardinality({k \in 1..Len(res) :
                res[k].true_product = product /\ ~res[k].correct})
        false_positives ==
            Cardinality({k \in 1..Len(res) :
                res[k].predicted_product = product /\ ~res[k].correct})
        total_true == true_positives + false_negatives
        total_predicted == true_positives + false_positives
        precision == Precision(true_positives, total_predicted)
        recall == Recall(true_positives, total_true)
    IN [precision |-> precision,
        recall |-> recall,
        f1_score |-> F1Score(precision, recall),
        true_positives |-> true_positives,
        false_negatives |-> false_negatives,
        false_positives |-> false_positives,
        total_samples |-> total_true]

\* np.zeros((len(PRODUCTS), len(PRODUCTS)), dtype=int)
Zeros(rows, cols) == [i \in 1..rows |-> [j \in 1..cols |-> 0]]

\* confusion_matrix[true_idx][pred_idx] += 1
MatrixAddTransposed(m, true_idx, pred_idx) ==
    [m EXCEPT ![pred_idx][true_idx] = @ + 1]
MatrixAdd(m, true_idx, pred_idx) ==
    [m EXCEPT ![true_idx][pred_idx] = @ + 1]

\* 'total_images': len(results)
TotalImagesListed(res) == SumLen(valImages, Products)
TotalImages(res) == Len(res)

NoReport == [written |-> FALSE]

\* def predict_single_image(model, image_path, confidence_threshold=0.7)
DefaultThreshold == 70

\* test_single_image: result = predict_single_image(model, image_path)
test_single_image(image) ==
    [done |-> TRUE] @@ predict_single_image(image, DefaultThreshold)

NoSingle == [done |-> FALSE]

InitVal ==
    /\ PipeIdle /\ AugIdle /\ SplitIdle
    /\ valImages \in {f \in [Products -> ImageLists] :
                        SumLen(f, Products) <= MaxValImages}
    /\ threshold \in Thresholds
    /\ valPc \in {"loop", "single"}
    /\ valPc = "single" => valImages = [p \in Products |-> <<>>]
    /\ valClass = 0
    /\ valTodo = <<>>
    /\ results = <<>>
    /\ totalPred = 0
    /\ correctPred = 0
    /\ stats = <<>>
    /\ matrix = <<>>
    /\ mIdx = 0
    /\ report = NoReport
    /\ valRc = -1
    /\ single = NoSingle

\* "for product in PRODUCTS": the next class; a class without a directory
\* or without images has nothing to do.
ValNextClass ==
    /\ valPc = "loop"
    /\ valTodo = <<>>
    /\ valClass < Len(PRODUCTS)
    /\ valClass' = valClass + 1
    /\ valTodo' = valImages[PRODUCTS[valClass + 1]]
    /\ UNCHANGED <<single, valImages, threshold, valPc, results, totalPred,
                   correctPred, stats, matrix, mIdx, report, valRc>>
    /\ UNCHANGED <<pipeVars, augVars, splitVars>>

\* "for img_path in image_files": one image, in the try/except.
ValImage ==
    /\ valPc = "loop"
    /\ valTodo # <<>>
    /\ LET image == Head(valTodo)
           result == ResultOf(image, PRODUCTS[valClass], threshold)
       IN IF image.ok
          THEN /\ results' = Append(results, result)
               /\ totalPred' = totalPred + 1
               /\ correctPred' = IF result.correct THEN correctPred + 1
                                 ELSE correctPred
               /\ valTodo' = Tail(valTodo)
          ELSE /\ valTodo' = RestAfterError(valTodo)
               /\ UNCHANGED <<results, totalPred, correctPred>>
    /\ UNCHANGED <<single, valImages, threshold, valPc, valClass, stats, matrix, mIdx,
                   report, valRc>>
    /\ UNCHANGED <<pipeVars, augVars, splitVars>>

\* After the loops: overall_accuracy (guarded), then
\* generate_validation_report(results, output_dir).
ValLoopEnd ==
    /\ valPc = "loop"
    /\ valTodo = <<>>
    /\ valClass = Len(PRODUCTS)
    /\ valPc' = "stats"
    /\ UNCHANGED <<single, valImages, threshold, valClass, valTodo, results, totalPred,
                   correctPred, stats, matrix, mIdx, report, valRc>>
    /\ UNCHANGED <<pipeVars, augVars, splitVars>>

\* "Calculate per-class metrics"; a division by zero would leave the
\* function with ZeroDivisionError. Then the matrix of zeros.
ValStats ==
    /\ valPc = "stats"
    /\ stats' = [product \in Products |-> PerClassStats(results, product)]
    /\ IF \E product \in Products :
              \/ stats'[product].precision.err
              \/ stats'[product].recall.err
              \/ stats'[product].f1_score.err
       THEN /\ valPc' = "done"
            /\ valRc' = 1
            /\ UNCHANGED matrix
       ELSE /\ valPc' = "matrix"
            /\ matrix' = Zeros(Len(PRODUCTS), Len(PRODUCTS))
            /\ UNCHANGED valRc
    /\ UNCHANGED <<single, valImages, threshold, valClass, valTodo, results, totalPred,
                   correctPred, mIdx, report>>
    /\ UNCHANGED <<pipeVars, augVars, splitVars>>

\* "for result in results": one result into the confusion matrix.
ValMatrix ==
    /\ valPc = "matrix"
    /\ mIdx < Len(results)
    /\ LET result == results[mIdx + 1]
       IN matrix' = MatrixAdd(matrix, IndexOf(result.true_product),
                              IndexOf(result.predicted_product))
    /\ mIdx' = mIdx + 1
    /\ UNCHANGED <<single, valImages, threshold, valPc, valClass, valTodo, results,
                   totalPred, correctPred, stats, report, valRc>>
    /\ UNCHANGED <<pipeVars, augVars, splitVars>>

\* "Save detailed report": overall_accuracy divides by len(results) with no
\* guard; when it raises, no report is written.
ValReport ==
    /\ valPc = "matrix"
    /\ mIdx = Len(results)
    /\ LET overall_accuracy ==
               Div(Cardinality({k \in 1..Len(results) : results[k].correct}),
                   Len(results))
       IN IF overall_accuracy.err
          THEN /\ valRc' = 1
               /\ UNCHANGED report
          ELSE /\ valRc' = 0
               /\ report' = [written |-> TRUE,
                             total_images |-> TotalImages(results),
                             overall_accuracy |-> overall_accuracy,
                             per_class_stats |-> stats,
                             confusion_matrix |-> matrix]
    /\ valPc' = "done"
    /\ UNCHANGED <<single, valImages, threshold, valClass, valTodo, results, totalPred,
                   correctPred, stats, matrix, mIdx>>
    /\ UNCHANGED <<pipeVars, augVars, splitVars>>

\* main with --single-image: test_single_image on the image, then the
\* result is printed. An image that fails to load or predict raises out of
\* main.
ValSingle ==
    /\ valPc = "single"
    /\ \E image \in ValImageSet :
         IF image.ok
         THEN single' = test_single_image(image) /\ valRc' = 0
         ELSE single' = single /\ valRc' = 1
    /\ valPc' = "done"
    /\ UNCHANGED <<valImages, threshold, valClass, valTodo, results, totalPred,
                   correctPred, stats, matrix, mIdx, report>>
    /\ UNCHANGED <<pipeVars, augVars, splitVars>>

NextVal ==
    \/ ValNextClass
    \/ ValImage
    \/ ValLoopEnd
    \/ ValStats
    \/ ValMatrix
    \/ ValReport
    \/ ValSingle

SpecVal == InitVal /\ [][NextVal]_vars

\* ------------------------------------------------- the scripts' class lists
\* PRODUCTS of train_model.py: classes=PRODUCTS of flow_from_directory fixes
\* the label index of each class.
TrainProducts ==
    <<"zyn-apple-mint", "zyn-spearmint", "terea-yellow", "terea-sienna",
      "iqos-iluma-prime">>

\* PRODUCTS of validate_model.py: PRODUCTS[predicted_class] names a
\* prediction and PRODUCTS.index(...) indexes the confusion matrix.
ValidateProducts ==
    <<"zyn-apple-mint", "zyn-spearmint", "terea-yellow", "terea-sienna",
      "iqos-iluma-prime">>

\* PRODUCTS of convert_tfjs.py.
ConvertProducts ==
    <<"zyn-apple-mint", "zyn-spearmint", "terea-yellow", "terea-sienna",
      "iqos-iluma-prime">>

\* create_model_metadata: 'products': PRODUCTS
MetadataProductsSorted ==
    <<"iqos-iluma-prime", "terea-sienna", "terea-yellow", "zyn-apple-mint",
      "zyn-spearmint">>
MetadataProducts == ConvertProducts

\* ------------------------------------------------------------ claims, Spec
Later(s) == {t \in StageSet : StageIndex(t) > StageIndex(s)}
Earlier(s) == {t \in StageSet : StageIndex(t) < StageIndex(s)}
Completed(s) == status[s] \in {"ok", "failed", "skipped"}
BothPathsFailed ==
    attempts = <<[path |-> "direct", ok |-> FALSE],
                 [path |-> "fallback", ok |-> FALSE]>>

\* C1: when the augmentation, training or conversion stage is reported
\* failed, the run has ended with exit code 1, no script is running and no
\* later stage was started or skipped.
C1_FatalStageAborts ==
    \A s \in {"aug", "train", "conv"} :
        status[s] = "failed" =>
            /\ pc = "done" /\ exitCode = 1
            /\ proc = NoProc
            /\ \A t \in Later(s) : status[t] = "pending"

C1_Witness ==
    /\ status["aug"] = "failed" /\ exitCode = 1
    /\ status["train"] = "pending"

\* C2: after a failed validation the orchestrator is at the conversion
\* stage or past it; when the run has ended and conversion is not skipped,
\* conversion ran, on the model directory validation was given; and the
\* run ends with exit code 1 only when conversion failed too.
C2_ValidationFailureRecoverable ==
    status["val"] = "failed" =>
        /\ pc \in {"conv", "done"}
        /\ status["conv"] # "pending" => (convModel = valModel \/ args.skipConv)
        /\ pc = "done" /\ ~args.skipConv =>
               status["conv"] \in {"ok", "failed"} /\ convModel = valModel
        /\ pc = "done" /\ exitCode # 0 => status["conv"] = "failed"

C2_Witness ==
    /\ status["val"] = "failed" /\ status["conv"] = "ok"
    /\ convModel = valModel /\ convModel # 0
    /\ pc = "done" /\ exitCode = 0

\* C3: stages start in the order augmentation, training, validation,
\* conversion; a stage is started or skipped only when every earlier stage
\* has completed or been skipped; at most one stage is executing.
C3_StrictlySequential ==
    /\ \A i, j \in 1..Len(order) :
           i < j => StageIndex(order[i]) < StageIndex(order[j])
    /\ \A s \in StageSet :
           status[s] # "pending" => \A t \in Earlier(s) : Completed(t)
    /\ Cardinality({s \in StageSet : status[s] = "running"}) <= 1
    /\ \A s \in StageSet : status[s] = "running" <=> proc.stage = s

C3_Witness ==
    /\ order = Stages
    /\ pc = "done"
    /\ \A s \in StageSet : status[s] = "ok"

\* C4: with training skipped, the resolved directory exists and no existing
\* training_* directory has a greater modification time; with no such
\* directory the run ends with exit code 1 and validation and conversion
\* never start.
C4_SkipTrainingResolvesLatest ==
    status["train"] = "skipped" =>
        /\ latest # 0 =>
               /\ dirs[latest].exists
               /\ \A n \in Existing : dirs[n].mtime <= dirs[latest].mtime
        /\ pc # "resolve" => (latest = 0 <=> Existing = {})
        /\ Existing = {} /\ pc # "resolve" =>
               /\ pc = "done" /\ exitCode = 1
               /\ status["val"] = "pending" /\ status["conv"] = "pending"

C4_Witness ==
    /\ status["train"] = "skipped"
    /\ latest # 0
    /\ \E n \in Existing : dirs[n].mtime < dirs[latest].mtime
    /\ status["val"] # "pending"

\* C5: a stage started while its required input was absent is reported
\* failed, and the run ends with exit code 1 and no later stage.
C5_MissingInputFatal ==
    \A s \in missing :
        status[s] # "running" =>
            /\ status[s] = "failed"
            /\ pc = "done" /\ exitCode = 1
            /\ \A t \in Later(s) : status[t] = "pending"

\* C6: the first conversion attempt is the direct one; a second attempt is
\* the fallback and is made only after a failed direct attempt; and once
\* the direct attempt has failed the fallback is the next step, so that
\* convert_model never ends on a failed direct attempt alone.
C6_DirectThenFallbackIffFailed ==
    /\ Len(attempts) <= 2
    /\ Len(attempts) >= 1 => attempts[1].path = "direct"
    /\ Len(attempts) = 2 => attempts[2].path = "fallback" /\ ~attempts[1].ok
    /\ Len(attempts) = 1 /\ ~attempts[1].ok =>
           proc.stage = "conv" /\ proc.at = "fallback"
    /\ proc.at = "fallback" => Len(attempts) = 1 /\ ~attempts[1].ok

C6_Witness ==
    /\ attempts = <<[path |-> "direct", ok |-> FALSE],
                    [path |-> "fallback", ok |-> TRUE]>>
    /\ status["conv"] = "ok"

C8_FallbackExhaustedFatal ==
    BothPathsFailed =>
        /\ failedAt = "convert"
        /\ proc.stage = "conv" => proc.at = "exit" /\ proc.rc = 1
        /\ effects = {}
        /\ deployed # "new"
        /\ status["conv"] \in {"running", "failed"}
        /\ pc = "done" => exitCode = 1
        /\ proc = NoProc => pc = "done"

C8_Witness ==
    /\ BothPathsFailed
    /\ pc = "done" /\ exitCode = 1
    /\ deployed = "old"

\* ---------------------------------------------------------- claims, SpecAug
Readable(p) == {f \in rawFiles[p] : f.readable}
ProductIndex(p) == CHOOSE i \in 1..Len(PRODUCTS) : PRODUCTS[i] = p
ProductDone(p) == augClass > ProductIndex(p)

\* C9: for a product whose n source images have all been processed, with
\* count k, the run has written exactly n*(k+1) distinct output files.
C9_ExactlyNTimesKPlusOne ==
    \A p \in Products :
        ProductDone(p) =>
            Cardinality(Range(listed[p])) = Cardinality(Readable(p)) * (augK + 1)

\* C10: the run ends with exit code 0, and with the original and every
\* variant of every readable source image of every product written.
C10_CorruptImageSkipped ==
    augPc = "done" =>
        /\ augRc = 0
        /\ \A p \in Products : \A f \in Readable(p) :
               Range(ImageOutputs(p, f, augK)) \subseteq Range(listed[p])

\* -------------------------------------------------------- claims, SpecSplit
\* The product's pass of the loop has completed in the current run.
Partitioned(p) == runs >= 1 /\ splitClass > ProductIndex(p)

RECURSIVE SumEntries(_)
SumEntries(es) ==
    IF es = {} THEN 0
    ELSE LET e == CHOOSE x \in es : TRUE
         IN e.train + e.val + SumEntries(es \ {e})

\* C11: a partitioned class of n >= 1 samples has floor(0.8 n) train
\* members, the other n - floor(0.8 n) are val members, and val is not
\* empty; every sample is in exactly one of the two.
C11_TrainCountIsFloor ==
    \A p \in Products :
        Partitioned(p) /\ samples[p] # {} =>
            LET n == Cardinality(samples[p])
                nTrain == Cardinality(member[p].train)
                nVal == Cardinality(member[p].val)
            IN /\ 10 * nTrain <= 8 * n /\ 8 * n < 10 * (nTrain + 1)
               /\ nVal = n - nTrain
               /\ nVal >= 1
               /\ member[p].train \cup member[p].val = samples[p]
               /\ member[p].train \cap member[p].val = {}
               /\ created[p] = member[p]

C11_Witness ==
    \E p, q \in Products :
        /\ Partitioned(p) /\ Partitioned(q)
        /\ Cardinality(samples[p]) = 1 /\ member[p].train = {}
        /\ Cardinality(samples[q]) = MaxSamples
        /\ Cardinality(member[q].train) = MaxSamples - 1

\* C12: two completed runs over the same sample set compute the same
\* train and val sets.
C12_SplitIndependentOfListingOrder ==
    runs >= 2 /\ splitPc = "done" /\ splitRc = 0 /\ prevRc = 0 =>
        member = prevMember

\* C13: a run over the splits directory left by a completed run, with the
\* same sample set, completes and leaves the membership as it was.
C13_RerunIdempotent ==
    runs >= 2 /\ splitPc = "done" /\ prevRc = 0 /\ prevLinks = prevMember =>
        splitRc = 0 /\ links = prevLinks

\* C14: the manifest of a completed run has one entry for each class with
\* samples, holding the numbers of train and val links the run made, and
\* its total is the sum of all these counts.
C14_ManifestCounts ==
    splitPc = "done" /\ splitRc = 0 =>
        /\ manifest.written
        /\ \A p \in Products :
               LET es == {e \in manifest.entries : e.class = p}
               IN IF samples[p] = {}
                  THEN es = {}
                  ELSE es = {[class |-> p,
                              train |-> Cardinality(created[p].train),
                              val |-> Cardinality(created[p].val)]}
        /\ manifest.total = SumEntries(manifest.entries)

C14_Witness ==
    /\ splitPc = "done" /\ splitRc = 0
    /\ Cardinality(manifest.entries) = Len(PRODUCTS)
    /\ manifest.total > MaxSamples

\* ---------------------------------------------------------- claims, SpecVal
RECURSIVE SeqSum(_)
SeqSum(s) == IF s = <<>> THEN 0 ELSE Head(s) + SeqSum(Tail(s))

MatrixSum(m) == SeqSum([i \in 1..Len(m) |-> SeqSum(m[i])])

\* Directory mode, after the per-class metrics and after the image loops.
StatsComputed == valClass = Len(PRODUCTS) /\ valPc \in {"matrix", "done"}
LoopDone == valClass = Len(PRODUCTS) /\ valPc \in {"stats", "matrix", "done"}

\* C15: counting a result whose true class has index i and whose predicted
\* class has index j adds one to cell [i][j] of the confusion matrix and
\* leaves every other cell as it was.
C15_IncrementsTrueRowPredictedColumn ==
    [][valPc = "matrix" /\ mIdx' = mIdx + 1 =>
          LET result == results[mIdx + 1]
              i == ProductIndex(result.true_product)
              j == ProductIndex(result.predicted_product)
          IN \A a, b \in 1..Len(PRODUCTS) :
                 matrix'[a][b] =
                     matrix[a][b] + (IF a = i /\ b = j THEN 1 ELSE 0)]_vars

C15_Witness ==
    /\ valPc \in {"matrix", "done"}
    /\ mIdx = 1
    /\ results[1].true_product = PRODUCTS[1]
    /\ results[1].predicted_product = PRODUCTS[2]
    /\ matrix[1][2] = 1
    /\ matrix[2][1] = 0

\* C16: the confusion matrix of a written report is square with one row per
\* class, each row sums to the class's total_samples (true positives plus
\* false negatives), and all cells sum to total_images.
C16_MatrixSumsMatchReport ==
    report.written =>
        LET m == report.confusion_matrix
        IN /\ Len(m) = Len(PRODUCTS)
           /\ \A i \in 1..Len(PRODUCTS) :
                  LET s == report.per_class_stats[PRODUCTS[i]]
                  IN /\ Len(m[i]) = Len(PRODUCTS)
                     /\ SeqSum(m[i]) = s.total_samples
                     /\ s.total_samples = s.true_positives + s.false_negatives
           /\ MatrixSum(m) = report.total_images

C16_Witness ==
    /\ report.written
    /\ report.total_images = 2
    /\ report.confusion_matrix[2][1] = 1
    /\ SumLen(valImages, Products) = 3

\* C17: the per-class metrics are computed without an error for any list
\* of results; precision is 0 when TP + FP = 0, recall is 0 when
\* TP + FN = 0, and f1 is 0 when precision + recall = 0.
C17_ZeroDenominatorGivesZero ==
    StatsComputed =>
        \A p \in Products :
            LET s == stats[p]
            IN /\ ~s.precision.err /\ ~s.recall.err /\ ~s.f1_score.err
               /\ s.true_positives + s.false_positives = 0 =>
                      s.precision.num = 0
               /\ s.true_positives + s.false_negatives = 0 =>
                      s.recall.num = 0
               /\ s.precision.num = 0 /\ s.recall.num = 0 =>
                      s.f1_score.num = 0

C17_Witness ==
    /\ StatsComputed
    /\ \E p, q \in Products :
           /\ stats[p].true_positives + stats[p].false_positives = 0
           /\ stats[p].true_positives + stats[p].false_negatives = 0
           /\ stats[p].f1_score = Zero
           /\ stats[q].true_positives > 0

\* C18: a result has success = true exactly when its confidence is at
\* least the threshold given to predict_single_image, whether or not the
\* predicted class is the true class.
C18_SuccessIffConfidenceAtLeastThreshold ==
    \A k \in 1..Len(results) :
        results[k].success <=> results[k].confidence >= threshold

C18_Witness ==
    \E k, l \in 1..Len(results) :
        /\ results[k].correct
        /\ results[k].confidence < threshold
        /\ ~results[k].success
        /\ ~results[l].correct
        /\ results[l].confidence = threshold
        /\ results[l].success

IsOk(image) == image.ok

ExpectedOf(p) ==
    LET oks == SelectSeq(valImages[p], IsOk)
    IN [k \in 1..Len(oks) |->
           [true_product |-> p,
            predicted_product |-> PRODUCTS[oks[k].pred],
            confidence |-> oks[k].conf]]

RECURSIVE ExpectedFrom(_)
ExpectedFrom(i) ==
    IF i > Len(PRODUCTS) THEN <<>>
    ELSE ExpectedOf(PRODUCTS[i]) \o ExpectedFrom(i + 1)

\* C20: when the loops of validate_directory are over, the results are the
\* images that loaded and predicted, class by class in listing order, and
\* nothing else; the totals and the confusion matrix count these only.
C20_FailedImageSkippedOthersEvaluated ==
    LoopDone =>
        LET expected == ExpectedFrom(1)
        IN /\ Len(results) = Len(expected)
           /\ \A k \in 1..Len(results) :
                  /\ results[k].true_product = expected[k].true_product
                  /\ results[k].predicted_product = expected[k].predicted_product
                  /\ results[k].confidence = expected[k].confidence
           /\ totalPred = Len(expected)
           /\ correctPred =
                  Cardinality({k \in 1..Len(expected) :
                      expected[k].predicted_product = expected[k].true_product})
           /\ valPc = "done" /\ valRc = 0 => MatrixSum(matrix) = Len(expected)

C20_Witness ==
    /\ valPc = "done" /\ valRc = 0
    /\ Len(valImages[PRODUCTS[1]]) = 2
    /\ ~valImages[PRODUCTS[1]][1].ok
    /\ valImages[PRODUCTS[1]][2].ok
    /\ Len(valImages[PRODUCTS[2]]) = 1
    /\ valImages[PRODUCTS[2]][1].ok
    /\ Len(results) = 2

\* ------------------------------------------------- claims, the class lists
\* C19: the class sequence in the metadata written by the conversion equals,
\* element by element and in the same order, the sequence that fixes the
\* training label indices and the sequence validation uses for the
\* confusion matrix and for naming a predicted index.
C19_MetadataClassOrderMatches ==
    "metadata" \in effects =>
        /\ Len(MetadataProducts) = Len(TrainProducts)
        /\ Len(MetadataProducts) = Len(ValidateProducts)
        /\ \A i \in 1..Len(MetadataProducts) :
               /\ MetadataProducts[i] = TrainProducts[i]
               /\ MetadataProducts[i] = ValidateProducts[i]

C19_Witness ==
    /\ "metadata" \in effects
    /\ status["train"] = "ok"
    /\ status["val"] = "ok"
    /\ status["conv"] = "ok"

\* ------------------------------------------------ claims, publish and resolve
\* C21: the publish step never replaces the deployment directory in one
\* step: an existing directory is first removed, and the new one is first
\* seen with part of its files, so a reader can find it missing or partial.
C21_PublishIsRemoveThenCopy ==
    [][/\ deployed = "old" /\ deployed' # "old" => deployed' = "absent"
       /\ deployed # "new" /\ deployed' = "new" => deployed = "partial"
       /\ deployed' = "partial" /\ deployed # "partial" => deployed = "absent"]_vars

C21_Witness ==
    /\ proc.stage = "conv" /\ proc.at = "copyfiles"
    /\ deployed = "partial"
    /\ "rmtree" \in effects

\* C22: a conversion stage that completed successfully (the orchestrator
\* always asks for the publish) leaves the deployment directory holding
\* the files of the new artifact, and nothing of an earlier deployment.
C22_SuccessfulConversionDeploysNew ==
    status["conv"] = "ok" => deployed = "new"

\* C23: an artifact produced by either conversion path is quantized exactly
\* when quantization is enabled.
C23_ProducedArtifactQuantizedIffEnabled ==
    \A i \in 1..Len(attempts) :
        attempts[i].ok => (("quantized" \in effects) <=> Quantization)

\* C24: after its own training stage succeeded and produced a model, the
\* run hands the directory of that training invocation to validation and
\* to conversion.
C24_OwnTrainingModelPassedOn ==
    /\ status["train"] = "ok" /\ "train" \notin missing
    /\ status["val"] # "pending"
    => /\ valModel = ownDir
       /\ status["conv"] \in {"running", "ok", "failed"} => convModel = ownDir

\* C25: a run that exits with code 0 and did not skip the conversion has
\* converted the model it resolved: one of the two conversion paths
\* produced an artifact from a final model that exists.
C25_ExitZeroImpliesArtifact ==
    exitCode = 0 /\ ~args.skipConv =>
        /\ \E i \in 1..Len(attempts) : attempts[i].ok
        /\ convModel = latest
        /\ dirs[convModel].final

\* C26: with training skipped, when some training_* directory holds a final
\* model, the directory the orchestrator resolves holds one.
C26_SkipTrainingResolvesCompletedModel ==
    /\ args.skipTrain
    /\ latest # 0
    /\ \E n \in Existing : dirs[n].final
    => dirs[latest].final

\* ------------------------------------------------- claims, repeated runs
\* C27: whatever runs wrote into the splits directory, no sample of a class
\* has a link in both its train and its val directory.
C27_TrainAndValDisjoint ==
    \A p \in Products : links[p].train \cap links[p].val = {}

\* C28: after a completed augmentation run, the files the partitioner
\* lists in a class folder are exactly the files this run wrote for the
\* class.
C28_ListedSamplesAreThisRuns ==
    augPc = "done" /\ augRc = 0 =>
        \A p \in Products : outFiles[p] = Range(listed[p])

\* ------------------------------------------------- claims, validation modes
\* C29: a directory validation that evaluated no sample completes and
\* writes a report with total 0 and overall accuracy 0.
C29_ZeroSamplesGiveEmptyReport ==
    valPc = "done" /\ valClass = Len(PRODUCTS) /\ Len(results) = 0 =>
        /\ valRc = 0
        /\ report.written
        /\ report.total_images = 0
        /\ report.overall_accuracy.num = 0

\* C30: in single-image mode the reported success flag is true exactly
\* when the confidence is at least the configured threshold.
C30_SingleImageUsesConfiguredThreshold ==
    single.done => (single.success <=> single.confidence >= threshold)

====
